---- MODULE Spec2Model ----
(***************************************************************************)
(* prost-build/src/filters.rs: selectors (one bit each, plus the wildcard  *)
(* Everything = u32::MAX), filters (a u32 mask), union, is_set, reverse    *)
(* lookup, Debug rendering and the wire-kind classifier.                   *)
(*                                                                         *)
(* A u32 is a vector of Width bits, bit 0 the least significant: TLC's     *)
(* integers stop at 2^31 - 1, so u32::MAX and 1<<31 are not integers here. *)
(* &, | and 1<<idx are computed bit by bit; the decimal text of a u32 is   *)
(* computed from its two 16-bit halves.                                    *)
(***************************************************************************)
EXTENDS Integers, Sequences, FiniteSets, TLC

VARIABLES dom, f, ops, n, q

vars == <<dom, f, ops, n, q>>

(***************************************************************************)
(* Bounds of the model.                                                    *)
(***************************************************************************)
\* how many operands a filter is built from
MaxOperands == 2
\* how many bits a reverse-lookup input may have set
MaxBits == 2

(***************************************************************************)
(* u32                                                                     *)
(***************************************************************************)
Width == 32

BitIdx == 0..(Width - 1)

U32Zero == [i \in BitIdx |-> 0]

U32Max == [i \in BitIdx |-> 1]

\* 1<<idx on a u32, for idx < Width
Shl1(idx) == [i \in BitIdx |-> IF i = idx THEN 1 ELSE 0]

BitAnd(x, y) == [i \in BitIdx |-> IF x[i] = 1 /\ y[i] = 1 THEN 1 ELSE 0]

BitOr(x, y) == [i \in BitIdx |-> IF x[i] = 1 \/ y[i] = 1 THEN 1 ELSE 0]

NonZero(x) == \E i \in BitIdx : x[i] = 1

\* the 16 bits of x from bit `base` up, as a number
Half(x, base) ==
      x[base]             + 2 * x[base + 1]     + 4 * x[base + 2]
    + 8 * x[base + 3]     + 16 * x[base + 4]    + 32 * x[base + 5]
    + 64 * x[base + 6]    + 128 * x[base + 7]   + 256 * x[base + 8]
    + 512 * x[base + 9]   + 1024 * x[base + 10] + 2048 * x[base + 11]
    + 4096 * x[base + 12] + 8192 * x[base + 13] + 16384 * x[base + 14]
    + 32768 * x[base + 15]

\* v < 10000 as four decimal digits
Pad4(v) ==
    (IF v < 10 THEN "000" ELSE IF v < 100 THEN "00"
     ELSE IF v < 1000 THEN "0" ELSE "") \o ToString(v)

\* "{}" of a u32, its decimal text: x = hi * 65536 + lo
\*                                    = (hi * 6) * 10000 + (hi * 5536 + lo)
Display(x) ==
    LET lo == Half(x, 0)
        hi == Half(x, 16)
        low == hi * 5536 + lo
        high == hi * 6 + (low \div 10000)
    IN  IF high = 0 THEN ToString(low % 10000)
        ELSE ToString(high) \o Pad4(low % 10000)

(***************************************************************************)
(* The two enums.  A variant is [enum, var]; its discriminant is the u32   *)
(* the declaration gives it.                                               *)
(***************************************************************************)
TypeSelector ==
    << <<"ProtobufMessage",  Shl1(0)>>,
       <<"ProtobufEnum",     Shl1(1)>>,
       <<"ProtobufOneof",    Shl1(2)>>,
       <<"RustStruct",       Shl1(3)>>,
       <<"RustEnum",         Shl1(4)>>,
       <<"RustEnumCLike",    Shl1(5)>>,
       <<"RustEnumWithData", Shl1(6)>>,
       <<"Everything",       U32Max>> >>

FieldSelector ==
    << <<"Double",   Shl1(1)>>,
       <<"Float",    Shl1(2)>>,
       <<"Int64",    Shl1(3)>>,
       <<"Uint64",   Shl1(4)>>,
       <<"Int32",    Shl1(5)>>,
       <<"Fixed64",  Shl1(6)>>,
       <<"Fixed32",  Shl1(7)>>,
       <<"Bool",     Shl1(8)>>,
       <<"String",   Shl1(9)>>,
       <<"Group",    Shl1(10)>>,
       <<"Message",  Shl1(11)>>,
       <<"Bytes",    Shl1(12)>>,
       <<"Uint32",   Shl1(13)>>,
       <<"Enum",     Shl1(14)>>,
       <<"Sfixed32", Shl1(15)>>,
       <<"Sfixed64", Shl1(16)>>,
       <<"Sint32",   Shl1(17)>>,
       <<"Sint64",   Shl1(18)>>,
       <<"NoDataEnumVariant", Shl1(19)>>,
       <<"OneofField",        Shl1(20)>>,
       <<"MapField",          Shl1(21)>>,
       <<"Everything",        U32Max>> >>

EnumDecl(enum) == IF enum = "TypeSelector" THEN TypeSelector ELSE FieldSelector

Variant(enum, var) == [enum |-> enum, var |-> var]

\* every variant of an enum
Variants(enum) ==
    {Variant(enum, EnumDecl(enum)[i][1]) : i \in DOMAIN EnumDecl(enum)}

\* `en as u32`
AsU32(en) ==
    LET d == EnumDecl(en.enum)
    IN  d[CHOOSE i \in DOMAIN d : d[i][1] = en.var][2]

\* #[derive(Debug)] on a field-less enum writes the variant's name
DebugSelector(en) == en.var

(***************************************************************************)
(* The two uses of implement_conversions! and the one of impl_from_type!.  *)
(* A filter type is named by its identifier; dom holds it.                 *)
(***************************************************************************)
TypeConversions ==
    [filter |-> "TypeFilter", selector |-> "TypeSelector",
     vars |-> <<"ProtobufMessage", "ProtobufEnum", "ProtobufOneof",
                "RustStruct", "RustEnum", "RustEnumCLike",
                "RustEnumWithData">>]

\* the macro called without the variant declared last
FieldConversions_NoMapField ==
    [filter |-> "FieldFilter", selector |-> "FieldSelector",
     vars |-> <<"Double", "Float", "Int64", "Uint64", "Int32", "Fixed64",
                "Fixed32", "Bool", "String", "Group", "Message", "Bytes",
                "Uint32", "Enum", "Sfixed32", "Sfixed64", "Sint32", "Sint64",
                "NoDataEnumVariant", "OneofField">>]

FieldConversions ==
    [filter |-> "FieldFilter", selector |-> "FieldSelector",
     vars |-> <<"Double", "Float", "Int64", "Uint64", "Int32", "Fixed64",
                "Fixed32", "Bool", "String", "Group", "Message", "Bytes",
                "Uint32", "Enum", "Sfixed32", "Sfixed64", "Sint32", "Sint64",
                "NoDataEnumVariant", "OneofField", "MapField">>]

Conversions(filter) ==
    IF filter = "TypeFilter" THEN TypeConversions ELSE FieldConversions

Filters == {"TypeFilter", "FieldFilter"}

SelectorOf(filter) == Conversions(filter).selector

\* Default written by hand as the filter of everything
Default_AllSet == U32Max

\* #[derive(Default)] on the tuple struct: the mask is u32's default
Default == U32Zero

\* is_set with | for &
is_set_Or(self, en) == NonZero(BitOr(self, AsU32(en)))

\* is_set asking for every bit of the selector
is_set_AllBits(self, en) == BitAnd(self, AsU32(en)) = AsU32(en)

\* $filter::is_set
is_set(self, en) == NonZero(BitAnd(self, AsU32(en)))

\* From<$selector> for $filter
from(en) == AsU32(en)

\* the union with & for |
filter_bitor_And(self, rhs) == BitAnd(self, rhs)

\* BitOr<T> for $filter, given rhs.into()
filter_bitor(self, rhs) == BitOr(self, rhs)

\* Selector | x that drops x
selector_bitor_DropsRhs(self, rhs) == AsU32(self)

\* BitOr<T> for $selector, given <T as Into<$filter>>::into(rhs)
selector_bitor(self, rhs) == filter_bitor(from(self), rhs)

\* TryFrom<u32> for $selector: the match over the arms from the i-th on, in
\* the macro's order; the first arm whose guard n == Self::$var as u32 holds
\* is taken, and `oth` when none does
TryFromArms(c, i, value) ==
    LET hit == {j \in i..Len(c.vars) :
                   value = AsU32(Variant(c.selector, c.vars[j]))}
    IN  IF hit = {} THEN <<"Err", value>>
        ELSE <<"Ok", Variant(c.selector,
                             c.vars[CHOOSE j \in hit : \A k \in hit : j <= k])>>

\* try_from without its first arm
try_from_SkipsFirstArm(filter, value) ==
    TryFromArms(Conversions(filter), 2, value)

try_from(filter, value) == TryFromArms(Conversions(filter), 1, value)

\* the loop one pass short
LoopEnd_OneShort == 32 - 1

\* the rendering loop is `for idx in 0..32`
LoopEnd == 32

\* 1<<idx overflows the shift when idx is not below the width of the u32
ShlOverflows(idx) == idx >= Width

\* what one set bit renders as
FmtItem(filter, mask) ==
    LET r == try_from(filter, mask)
    IN  IF r[1] = "Ok" THEN DebugSelector(r[2])
        ELSE "Unknonwn(" \o Display(r[2]) \o ")"

\* `written` at the start of the pass for idx: it is set in every pass that
\* writes an item and never cleared, so it holds when a lower bit is set
Written(self, idx) ==
    \E j \in 0..(idx - 1) : NonZero(BitAnd(Shl1(j), self))

\* the loop body writing the separator after each item
FmtPass_TrailingSeparator(filter, self, idx) ==
    LET mask == Shl1(idx)
    IN  IF NonZero(BitAnd(mask, self))
        THEN <<FmtItem(filter, mask), " | ">>
        ELSE <<>>

\* the pieces one pass of the loop body of fmt writes
FmtPass(filter, self, idx) ==
    LET mask == Shl1(idx)
    IN  IF NonZero(BitAnd(mask, self))
        THEN (IF Written(self, idx) THEN <<" | ">> ELSE <<>>)
                 \o <<FmtItem(filter, mask)>>
        ELSE <<>>

\* the pieces the passes for idx = lo .. hi - 1 write, in that order (the
\* range is halved to keep the evaluation shallow)
RECURSIVE FmtLoop(_, _, _, _)
FmtLoop(filter, self, lo, hi) ==
    IF hi <= lo THEN <<>>
    ELSE IF hi = lo + 1 THEN FmtPass(filter, self, lo)
    ELSE LET mid == (lo + hi) \div 2
         IN  FmtLoop(filter, self, lo, mid) \o FmtLoop(filter, self, mid, hi)

\* fmt::Debug for $filter: the pieces written, in order
fmt(filter, self) ==
    <<filter \o "( ">> \o FmtLoop(filter, self, 0, LoopEnd) \o <<" )">>

\* the text the pieces lo .. hi of a sequence of written pieces make
RECURSIVE TextOf(_, _, _)
TextOf(pieces, lo, hi) ==
    IF hi < lo THEN ""
    ELSE IF hi = lo THEN pieces[lo]
    ELSE LET mid == (lo + hi) \div 2
         IN  TextOf(pieces, lo, mid) \o TextOf(pieces, mid + 1, hi)

\* the text a sequence of written pieces makes
Text(pieces) == TextOf(pieces, 1, Len(pieces))

\* prost_types' Type: the match of impl_from_type! has no fallback arm, so
\* the variants it lists are all of them
ImplFromTypeVars ==
    <<"Double", "Float", "Int64", "Uint64", "Int32", "Fixed64",
      "Fixed32", "Bool", "String", "Group", "Message", "Bytes",
      "Uint32", "Enum", "Sfixed32", "Sfixed64", "Sint32", "Sint64">>

Type == {Variant("Type", ImplFromTypeVars[i]) : i \in DOMAIN ImplFromTypeVars}

\* the classifier with the arm of Group copied from that of Message
from_type_GroupAsMessage(t) ==
    IF t.var = "Group" THEN Variant("FieldSelector", "Message")
    ELSE Variant("FieldSelector", t.var)

\* From<Type> for FieldSelector: the arm Type::$var => $selector::$var
from_type(t) ==
    LET i == CHOOSE j \in DOMAIN ImplFromTypeVars :
                 Variant("Type", ImplFromTypeVars[j]) = t
    IN  Variant("FieldSelector", ImplFromTypeVars[i])

(***************************************************************************)
(* The state.  The configuration side builds one filter of type dom: f is  *)
(* the filter, ops the operands (as filters) it was made of and n how many *)
(* there were.  q is the call in progress: the operation, its arguments    *)
(* and its result, until the caller takes the result.                      *)
(***************************************************************************)
Selectors == Variants(SelectorOf(dom))

Idle == [op |-> "none"]

Init ==
    /\ dom \in Filters
    /\ f = Default
    /\ ops = {}
    /\ n = 0
    /\ q = Idle

Built(form, lhs, rhs, out) ==
    [op |-> "bitor", form |-> form, lhs |-> lhs, rhs |-> rhs, out |-> out]

\* $filter::from(en), the first value of the filter
FromSelector(en) ==
    /\ q = Idle
    /\ n = 0
    /\ n < MaxOperands
    /\ f' = from(en)
    /\ ops' = {from(en)}
    /\ n' = 1
    /\ q' = [op |-> "from", en |-> en, out |-> f']
    /\ UNCHANGED dom

\* a | b, both selectors, the first value of the filter
SelectorOrSelector(a, b) ==
    /\ q = Idle
    /\ n = 0
    /\ n + 2 <= MaxOperands
    /\ f' = selector_bitor(a, from(b))
    /\ ops' = {from(a), from(b)}
    /\ n' = 2
    /\ q' = Built("Selector|Selector", from(a), from(b), f')
    /\ UNCHANGED dom

\* a | f, a selector and the filter
SelectorOrFilter(a) ==
    /\ q = Idle
    /\ n < MaxOperands
    /\ f' = selector_bitor(a, f)
    /\ ops' = ops \cup {from(a)}
    /\ n' = n + 1
    /\ q' = Built("Selector|Filter", from(a), f, f')
    /\ UNCHANGED dom

\* f | a, the filter and a selector
FilterOrSelector(a) ==
    /\ q = Idle
    /\ n < MaxOperands
    /\ f' = filter_bitor(f, from(a))
    /\ ops' = ops \cup {from(a)}
    /\ n' = n + 1
    /\ q' = Built("Filter|Selector", f, from(a), f')
    /\ UNCHANGED dom

\* the filters at hand to union with: the default one, f itself, and the
\* filter made from one selector
FilterOperands == {Default, f} \cup {from(en) : en \in Selectors}

\* f | x, both filters
FilterOrFilter(x) ==
    /\ q = Idle
    /\ n < MaxOperands
    /\ f' = filter_bitor(f, x)
    /\ ops' = ops \cup {x}
    /\ n' = n + 1
    /\ q' = Built("Filter|Filter", f, x, f')
    /\ UNCHANGED dom

\* f.is_set(en)
IsSet(en) ==
    /\ q = Idle
    /\ q' = [op |-> "is_set", self |-> f, en |-> en, out |-> is_set(f, en)]
    /\ UNCHANGED <<dom, f, ops, n>>

\* format!("{:?}", f)
Fmt ==
    /\ q = Idle
    /\ q' = [op |-> "fmt", self |-> f, out |-> fmt(dom, f)]
    /\ UNCHANGED <<dom, f, ops, n>>

\* the caller takes the result of the call
Return ==
    /\ q # Idle
    /\ q' = Idle
    /\ UNCHANGED <<dom, f, ops, n>>

Next ==
    \/ \E en \in Selectors : FromSelector(en)
    \/ \E a, b \in Selectors : SelectorOrSelector(a, b)
    \/ \E a \in Selectors : SelectorOrFilter(a)
    \/ \E a \in Selectors : FilterOrSelector(a)
    \/ \E x \in FilterOperands : FilterOrFilter(x)
    \/ \E en \in Selectors : IsSet(en)
    \/ Fmt
    \/ Return

Spec == Init /\ [][Next]_vars

(***************************************************************************)
(* The two conversions that read no filter, on inputs from bounded sets.   *)
(***************************************************************************)
\* the u32 values with at most k bits set
RECURSIVE UpToBits(_)
UpToBits(k) ==
    IF k = 0 THEN {U32Zero}
    ELSE LET less == UpToBits(k - 1)
         IN  less \cup {BitOr(x, Shl1(i)) : x \in less, i \in BitIdx}

LookupInputs == UpToBits(MaxBits) \cup {U32Max}

\* $selector::try_from(value)
TryFromCall(value) ==
    /\ q = Idle
    /\ q' = [op |-> "try_from", value |-> value, out |-> try_from(dom, value)]
    /\ UNCHANGED <<dom, f, ops, n>>

\* FieldSelector::from(t)
FromTypeCall(t) ==
    /\ dom = "FieldFilter"
    /\ q = Idle
    /\ q' = [op |-> "from_type", t |-> t, out |-> from_type(t)]
    /\ UNCHANGED <<dom, f, ops, n>>

NextLookup ==
    \/ \E value \in LookupInputs : TryFromCall(value)
    \/ \E t \in Type : FromTypeCall(t)
    \/ Return

SpecLookup == Init /\ [][NextLookup]_vars

(***************************************************************************)
(* What the claims are stated with.                                        *)
(***************************************************************************)
\* the wildcard of a filter type's selector enum
Wildcard(filter) == Variant(SelectorOf(filter), "Everything")

\* the ordinary selectors: every variant but the wildcard
Ordinary(filter) == Variants(SelectorOf(filter)) \ {Wildcard(filter)}

\* the bit positions set in a u32
SetBits(x) == {i \in BitIdx : x[i] = 1}

\* a set of numbers in ascending order
Ascending(S) ==
    [k \in 1..Cardinality(S) |->
        CHOOSE e \in S : Cardinality({x \in S : x < e}) = k - 1]

\* the items of a rendering: what stands between the opening piece, the
\* separators and the closing piece
Items(out) == [k \in 1..((Len(out) - 1) \div 2) |-> out[2 * k]]

\* the pieces of "<name>( " + items joined by " | " + " )"
Joined(name, items) ==
    LET m == Len(items)
        last == IF m = 0 THEN 2 ELSE 2 * m + 1
    IN  [k \in 1..last |->
            IF k = 1 THEN name \o "( "
            ELSE IF k = last THEN " )"
            ELSE IF k % 2 = 0 THEN items[k \div 2]
            ELSE " | "]

\* the bit positions the ordinary variants of each enum are declared on
DeclaredBits(filter) == IF filter = "TypeFilter" THEN 0..6 ELSE 1..21

\* the decimal text of 2^b
Pow2Text(b) == IF b = 31 THEN "2147483648" ELSE ToString(2 ^ b)

\* C1: the filter made from one ordinary selector s1 matches an ordinary
\* selector s2 exactly when s2 = s1, both right after From and when is_set is
\* called on a filter whose only operand was s1.
C1_SingletonMatchesItself ==
    /\ (q.op = "from" /\ q.en \in Ordinary(dom)) =>
          \A s2 \in Ordinary(dom) : is_set(q.out, s2) <=> (s2 = q.en)
    /\ (q.op = "is_set" /\ n = 1 /\ q.en \in Ordinary(dom)) =>
          \A s1 \in Ordinary(dom) :
              ops = {from(s1)} => (q.out <=> (q.en = s1))

C1_Witness ==
    /\ q.op = "is_set"
    /\ n = 1
    /\ q.en \in Ordinary(dom)
    /\ \E s1 \in Ordinary(dom) : ops = {from(s1)} /\ s1 # q.en
    /\ ~q.out

\* C2: union is commutative and associative with the default filter as its
\* identity, on the operands of every union made and any third filter at
\* hand, and Selector|x gives the mask Filter|x gives.
C2_UnionAlgebra ==
    q.op = "bitor" =>
        LET a == q.lhs
            b == q.rhs
        IN  /\ q.out = filter_bitor(b, a)
            /\ \A c \in FilterOperands :
                  filter_bitor(filter_bitor(a, b), c)
                      = filter_bitor(a, filter_bitor(b, c))
            /\ filter_bitor(a, Default) = a
            /\ filter_bitor(Default, a) = a
            /\ filter_bitor(q.out, Default) = q.out
            /\ \A s \in Selectors :
                  /\ a = from(s) => selector_bitor(s, b) = q.out
                  /\ b = from(s) => selector_bitor(s, a) = q.out

C2_Witness ==
    /\ q.op = "bitor"
    /\ q.form = "Selector|Filter"
    /\ q.lhs # q.rhs
    /\ q.out # q.lhs
    /\ q.out # q.rhs

\* C3: is_set with the wildcard Everything is true exactly when the filter
\* has some bit set, whatever the bits are.
C3_WildcardIsNonEmpty ==
    (q.op = "is_set" /\ q.en = Wildcard(dom)) =>
        (q.out <=> (q.self # U32Zero))

C3_Witness ==
    /\ q.op = "is_set"
    /\ q.en = Wildcard(dom)
    /\ \E s \in Ordinary(dom) : q.self = AsU32(s)
    /\ q.out

\* C4: the default filter has no bit set and is_set on it is false for every
\* ordinary selector.
C4_DefaultMatchesNothing ==
    n = 0 =>
        /\ f = U32Zero
        /\ (q.op = "is_set" /\ q.en \in Ordinary(dom)) => ~q.out

C4_Witness ==
    /\ n = 0
    /\ q.op = "is_set"
    /\ q.en \in Ordinary(dom)
    /\ q.self = U32Zero

\* C5: try_from returns Ok(s) on the value of an ordinary selector s, and
\* Err(value), the value unchanged, on every other value; it never returns
\* the wildcard.
C5_ReverseLookup ==
    q.op = "try_from" =>
        /\ \A s \in Ordinary(dom) :
              q.value = AsU32(s) => q.out = <<"Ok", s>>
        /\ (\A s \in Ordinary(dom) : q.value # AsU32(s)) =>
              q.out = <<"Err", q.value>>
        /\ q.out # <<"Ok", Wildcard(dom)>>
        /\ (q.value = U32Zero \/ q.value = U32Max
              \/ Cardinality(SetBits(q.value)) > 1
              \/ SetBits(q.value) \cap DeclaredBits(dom) = {}) =>
              q.out = <<"Err", q.value>>

C5_Witness ==
    /\ q.op = "try_from"
    /\ q.value = U32Max
    /\ q.out = <<"Err", U32Max>>

\* C6: a rendering is "<FilterName>( ", the items joined by " | ", " )":
\* one item for each set bit, in ascending order of the bits, with
\* "Name(  )" for the empty filter, "Name( X )" for one selector and
\* "Name( X | Y )" for two.
C6_RenderingShape ==
    q.op = "fmt" =>
        LET bits == Ascending(SetBits(q.self))
            items == [k \in 1..Len(bits) |-> FmtItem(dom, Shl1(bits[k]))]
        IN  /\ q.out = Joined(dom, items)
            /\ Len(Items(q.out)) = Cardinality(SetBits(q.self))
            /\ q.self = U32Zero => Text(q.out) = dom \o "(  )"
            /\ \A x \in Ordinary(dom) :
                  q.self = AsU32(x) =>
                      Text(q.out) = dom \o "( " \o x.var \o " )"
            /\ \A x, y \in Ordinary(dom) :
                  (/\ q.self = BitOr(AsU32(x), AsU32(y))
                   /\ \E i, j \in BitIdx :
                         i < j /\ AsU32(x)[i] = 1 /\ AsU32(y)[j] = 1) =>
                      Text(q.out) =
                          dom \o "( " \o x.var \o " | " \o y.var \o " )"

C6_Witness ==
    /\ q.op = "fmt"
    /\ Cardinality(SetBits(q.self)) = 2
    /\ Len(q.out) = 5
    /\ q.out[3] = " | "

\* C7: rendering completes on every mask: a set bit no ordinary variant is
\* declared on renders as the marker with 2^idx in it, so a filter with
\* Everything in it renders 32 items, names on the declared bits and markers
\* on the others; no 1<<idx of the loop overflows the u32.
C7_RenderingNeverAborts ==
    /\ \A idx \in 0..(LoopEnd - 1) : ~ShlOverflows(idx)
    /\ q.op = "fmt" =>
          LET bits == Ascending(SetBits(q.self))
              items == Items(q.out)
          IN  /\ q.out[Len(q.out)] = " )"
              /\ Len(items) = Len(bits)
              /\ \A k \in 1..Len(bits) :
                    IF bits[k] \in DeclaredBits(dom)
                    THEN \E s \in Ordinary(dom) :
                            /\ AsU32(s) = Shl1(bits[k])
                            /\ items[k] = s.var
                    ELSE items[k] = "Unknonwn(" \o Pow2Text(bits[k]) \o ")"
              /\ q.self = U32Max => Len(items) = 32

C7_Witness ==
    /\ q.op = "fmt"
    /\ q.self = U32Max
    /\ Len(Items(q.out)) = 32
    /\ Items(q.out)[32] = "Unknonwn(2147483648)"

\* C8: the classifier maps each of the 18 wire kinds to the field selector of
\* the same name, no two wire kinds to the same selector, and none to
\* NoDataEnumVariant, OneofField, MapField or Everything.
C8_ClassifierTable ==
    /\ {t.var : t \in Type} =
          {"Double", "Float", "Int64", "Uint64", "Int32", "Fixed64",
           "Fixed32", "Bool", "String", "Group", "Message", "Bytes",
           "Uint32", "Enum", "Sfixed32", "Sfixed64", "Sint32", "Sint64"}
    /\ q.op = "from_type" =>
          /\ q.out = Variant("FieldSelector", q.t.var)
          /\ q.out \in Ordinary("FieldFilter")
          /\ q.out.var \notin
                {"NoDataEnumVariant", "OneofField", "MapField", "Everything"}
          /\ \A t2 \in Type \ {q.t} :
                /\ from_type(t2) # q.out
                /\ AsU32(from_type(t2)) # AsU32(q.out)

C8_Witness ==
    /\ q.op = "from_type"
    /\ q.t.var = "Sint64"
    /\ q.out.var = "Sint64"

\* f matches what one of its operands matches, and so does every union
\* (is_set and fmt leave f and ops as they are: the states where one of
\* them is in progress say nothing more about f)
C9_MatchesAny ==
    /\ q.op \notin {"is_set", "fmt"} =>
          \A en \in Selectors :
              is_set(f, en) <=> \E x \in ops : is_set(x, en)
    /\ q.op = "bitor" =>
          \A en \in Selectors :
              is_set(q.out, en) <=> (is_set(q.lhs, en) \/ is_set(q.rhs, en))

\* no step that changes f takes a selector away from it
C9_OnlyGrows ==
    [][f' # f => \A en \in Selectors : is_set(f, en) => is_set(f', en)]_vars

\* C9: a filter matches a selector exactly when one of the operands it was
\* made of does; a union matches exactly when one of its two operands does;
\* and a selector the filter matches, it matches after every later step.
C9_MatchesAnyAndOnlyGrows == []C9_MatchesAny /\ C9_OnlyGrows

C9_Witness ==
    /\ q.op = "bitor"
    /\ n >= 2
    /\ \E en \in Ordinary(dom) :
          is_set(q.out, en) /\ ~is_set(q.lhs, en) /\ is_set(q.rhs, en)

\* no operand of f was the wildcard
OrdinaryOnly == \A x \in ops : x # AsU32(Wildcard(dom))

\* C10: a filter made of ordinary selectors only has no bit set outside the
\* declared ones (0..6 for TypeFilter, 1..21 for FieldFilter), try_from
\* succeeds on each of its bits, and its rendering has no marker: its items
\* are the names of the ordinary selectors it matches.
C10_OrdinaryFiltersStayDeclared ==
    OrdinaryOnly =>
        /\ SetBits(f) \subseteq DeclaredBits(dom)
        /\ \A i \in SetBits(f) : try_from(dom, Shl1(i))[1] = "Ok"
        /\ q.op = "fmt" =>
              LET items == Items(q.out)
                  names == {s.var : s \in {x \in Ordinary(dom) :
                                              is_set(q.self, x)}}
              IN  /\ {items[k] : k \in DOMAIN items} = names
                  /\ Len(items) = Cardinality(names)

C10_Witness ==
    /\ OrdinaryOnly
    /\ q.op = "fmt"
    /\ n >= 2
    /\ Len(Items(q.out)) = 2

====
